---- MODULE Spec2Model ----
(***************************************************************************)
(* The panel lifecycle and refresh-trigger state machine of GitDiffView    *)
(* (src/src/gitDiffView.ts, the command-driven design).                    *)
(*                                                                         *)
(* The extension host is single threaded: every handler below runs to      *)
(* completion, so each is one action.  The only suspension point is the    *)
(* promise returned by execShell, kept in `pending` until the host settles *)
(* it (ResolveRefresh / RejectRefresh).                                    *)
(***************************************************************************)
EXTENDS Integers, Sequences, FiniteSets, TLC

\* ---------------------------------------------------------------- bounds
\* Number of GitDiffView instances that may be constructed in one run.
MaxInstances == 2
\* Number of execShell invocations in one run.
MaxRefreshes == 2

\* ---------------------------------------------------------------- inputs
\* Paths are sequences of characters, so that endsWith is the real suffix test.
EmptyPath == << >>
RepoMarker == <<".">>
FileTxt == <<"f", "i", "l", "e", ".", "t", "x", "t">>
OtherTxt == <<"o", "t", "h", "e", "r", ".", "t", "x", "t">>
RepoSubFileTxt == <<"/", "r", "e", "p", "o", "/", "s", "u", "b", "/">> \o FileTxt
RepoOtherTxt == <<"/", "r", "e", "p", "o", "/">> \o OtherTxt
RepoDot == <<"/", "r", "e", "p", "o", "/", ".">>

\* uri.path values the host may deliver with a save notification.
SavedPaths == {RepoSubFileTxt, RepoOtherTxt, RepoDot, EmptyPath}
\* The createOrShow calls the extension's commands make: gitCmd, filePath and
\* vscode.ViewColumn.
Requests ==
    {[gitCmd |-> "git diff -- file.txt", filePath |-> FileTxt, column |-> "Beside"],
     [gitCmd |-> "git diff HEAD", filePath |-> RepoMarker, column |-> "One"],
     [gitCmd |-> "git diff", filePath |-> EmptyPath, column |-> "One"]}

\* GitDiffView.currentPanel === undefined
NoPanel == 0
\* webview.html before the first assignment
NoHtml == [kind |-> "empty"]

VARIABLES
    currentPanel,   \* GitDiffView.currentPanel: index into instances, or NoPanel
    instances,      \* every GitDiffView constructed so far, in construction order
    pending,        \* promises of execShell not settled yet
    execCount,      \* number of execShell invocations so far
    unhandled,      \* promise rejections that reached no handler
    lastOp,         \* the handler that ran last, with its arguments
    watched         \* filePath of the last createOrShow call, and the one it replaced

vars == <<currentPanel, instances, pending, execCount, unhandled, lastOp, watched>>

InstanceIds == 1..Len(instances)

\* ------------------------------------------------------ String.endsWith
EndsWith(s, suffix) ==
    /\ Len(suffix) <= Len(s)
    /\ SubSeq(s, Len(s) - Len(suffix) + 1, Len(s)) = suffix

\* JavaScript truthiness of a string
Truthy(s) == s # << >>

Range(seq) == {seq[k] : k \in 1..Len(seq)}

\* ------------------------------------------------- utils/disposable
\* The cleanup actions the constructor hands to registerDisposables, in order.
ClearCurrentPanel == "clearCurrentPanel"
OnDidDispose == "panel.onDidDispose"
OnDidChangeViewState == "panel.onDidChangeViewState"
ThePanel == "panel"

\* A disposal works on the registry slot and on the instance being disposed.
NotDestroyed == [slot |-> NoPanel, ran |-> <<"none">>]
Disposal(slot, o) == [slot |-> slot, o |-> o, atDestroy |-> NotDestroyed]
RECURSIVE DisposeAll(_, _)
RECURSIVE Dispose(_)
RECURSIVE PanelDispose(_)

\* Mutant: the first disposable forgets to clear the registry slot.
KeepCurrentPanel(st) == st

\* toDisposable(() => { GitDiffView.currentPanel = undefined; })
RunClearCurrentPanel(st) == [st EXCEPT !.slot = NoPanel]

\* WebviewPanel.dispose(), also what the host does when the user closes the
\* panel: the panel is destroyed, then its onDidDispose listeners are called.
\* st.atDestroy keeps, for the length of the handler, what the registry slot
\* held and which cleanup actions had run at the moment of the destruction.
PanelDispose(st) ==
    IF st.o.panelDisposed
    THEN st
    ELSE LET gone == [st EXCEPT !.o.panelDisposed = TRUE,
                                !.atDestroy = [slot |-> st.slot,
                                               ran |-> st.o.cleanupLog]]
         IN  IF gone.o.disposeHook THEN Dispose(gone) ELSE gone

\* One registered disposable's dispose()
RunDisposable(st, d) ==
    LET logged == [st EXCEPT !.o.cleanupLog = Append(@, d)]
    IN  CASE d = ClearCurrentPanel -> RunClearCurrentPanel(logged)
          [] d = OnDidDispose -> [logged EXCEPT !.o.disposeHook = FALSE]
          [] d = OnDidChangeViewState -> [logged EXCEPT !.o.viewHook = FALSE]
          [] d = ThePanel -> PanelDispose(logged)

DisposeAll(st, ds) ==
    IF ds = << >>
    THEN st
    ELSE DisposeAll(RunDisposable(st, Head(ds)), Tail(ds))

\* Mutant: dispose() runs the registered disposables on every call.
DisposeEveryTime(st) ==
    DisposeAll([st EXCEPT !.o.disposed = TRUE], st.o.disposables)

\* Disposable.dispose(): every registered disposable once, in registration
\* order; a second call does nothing.
Dispose(st) ==
    IF st.o.disposed
    THEN st
    ELSE LET ran == DisposeAll([st EXCEPT !.o.disposed = TRUE], st.o.disposables)
         IN  [ran EXCEPT !.o.disposables = << >>]

\* ------------------------------------------------- GitDiffView
\* Mutant: the constructor does not subscribe to panel.onDidDispose.
DisposablesWithoutDisposeHook ==
    <<ClearCurrentPanel, OnDidChangeViewState, ThePanel>>

\* Mutant: the panel is registered first.
DisposablesPanelFirst ==
    <<ThePanel, ClearCurrentPanel, OnDidDispose, OnDidChangeViewState>>

\* registerDisposables(...) of the constructor
RegisteredDisposables ==
    <<ClearCurrentPanel, OnDidDispose, OnDidChangeViewState, ThePanel>>

\* diff2html's html(diffContent)
RenderDiff(stdout) == [rendered |-> stdout]

\* getHtmlForWebview(diffContent): the rendered diff and this.gitCmd
GetHtmlForWebview(o, stdout) ==
    [kind |-> "document", app |-> RenderDiff(stdout), cmd |-> o.gitCmd,
     css |-> "out.min.css"]

\* The instance the constructor builds (its refreshViewContent() call is part
\* of the action).
Construct(gitCmd, filePath, column) ==
    [gitCmd |-> gitCmd,
     filePath |-> filePath,
     isPanelVisible |-> TRUE,
     logger |-> << >>,
     panelDisposed |-> FALSE,
     panelVisible |-> TRUE,
     panelColumn |-> column,
     html |-> NoHtml,
     saveListener |-> TRUE,
     disposed |-> FALSE,
     disposables |-> RegisteredDisposables,
     disposeHook |-> OnDidDispose \in Range(RegisteredDisposables),
     viewHook |-> OnDidChangeViewState \in Range(RegisteredDisposables),
     cleanupLog |-> << >>]

\* Mutant: the reuse branch does not store the new gitCmd.
ShowExistingKeepsCmd(o, gitCmd, filePath, column) ==
    [o EXCEPT !.panelColumn = column, !.filePath = filePath]

\* Mutant: the reuse branch does not store the new filePath.
ShowExistingKeepsPath(o, gitCmd, filePath, column) ==
    [o EXCEPT !.panelColumn = column, !.gitCmd = gitCmd]

\* The branch of createOrShow taken when GitDiffView.currentPanel is set,
\* up to its refreshViewContent() call.
ShowExisting(o, gitCmd, filePath, column) ==
    [o EXCEPT !.panelColumn = column,
              !.gitCmd = gitCmd, !.filePath = filePath]

\* execShell(this.gitCmd): a promise that is not settled yet
NewPromise(i, o, n) == [inst |-> i, cmd |-> o.gitCmd, req |-> n]

\* Mutant: the save listener compares the paths for equality.
SaveBranchExactMatch(filePath, path) ==
    IF Truthy(path) /\ path = filePath THEN "file"
    ELSE IF filePath = RepoMarker THEN "repo"
    ELSE "none"

\* What the save listener does for uri.path = path: "file" and "repo" are its
\* two refreshing branches.
SaveBranch(filePath, path) ==
    IF Truthy(path) /\ EndsWith(path, filePath) THEN "file"
    ELSE IF filePath = RepoMarker THEN "repo"
    ELSE "none"

SaveLogLine(filePath, branch) ==
    IF branch = "file" THEN <<"<<<refreshViewContent>>>  ", filePath>>
    ELSE <<"<<<refreshViewContent>>> for current repository.">>

\* Mutant: the callback drops an output older than the one displayed.
OnFulfilledDropsStale(o, stdout) ==
    IF o.panelDisposed
    THEN [o |-> o, threw |-> TRUE]
    ELSE IF o.html # NoHtml /\ o.html.app.rendered.req > stdout.req
    THEN [o |-> o, threw |-> FALSE]
    ELSE [o |-> [o EXCEPT !.html = GetHtmlForWebview(o, stdout),
                          !.logger = Append(@, <<"content refreshed">>)],
          threw |-> FALSE]

\* Mutant: the assignment lands on a destroyed panel as well.
OnFulfilledWritesAnyway(o, stdout) ==
    [o |-> [o EXCEPT !.html = GetHtmlForWebview(o, stdout),
                     !.logger = Append(@, <<"content refreshed">>)],
     threw |-> FALSE]

\* The then-callback of refreshViewContent, run with the command's output.
\* Assigning webview.html of a destroyed panel throws inside the callback.
OnFulfilled(o, stdout) ==
    IF o.panelDisposed
    THEN [o |-> o, threw |-> TRUE]
    ELSE [o |-> [o EXCEPT !.html = GetHtmlForWebview(o, stdout),
                          !.logger = Append(@, <<"content refreshed">>)],
          threw |-> FALSE]

\* Mutant: a rejection handler that blanks the page.
OnRejectedBlanksPage(o) == [o |-> [o EXCEPT !.html = NoHtml], threw |-> FALSE]

\* refreshViewContent passes no rejection handler to then(): the instance is
\* left as it is and the rejection goes on to the promise then() returned.
OnRejected(o) == [o |-> o, threw |-> TRUE]

\* ------------------------------------------------- state machine
Init ==
    /\ currentPanel = NoPanel
    /\ instances = << >>
    /\ pending = {}
    /\ execCount = 0
    /\ unhandled = 0
    /\ lastOp = [op |-> "activate"]
    /\ watched = [requested |-> EmptyPath, replaced |-> EmptyPath, reused |-> FALSE]

\* Mutant: createOrShow does not look at the registry slot.
NeverHasCurrentPanel == FALSE

\* if (GitDiffView.currentPanel)
HasCurrentPanel == currentPanel # NoPanel

\* GitDiffView.createOrShow(extensionPath, gitCmd, filePath, column)
CreateOrShow(gitCmd, filePath, column) ==
    /\ execCount < MaxRefreshes
    /\ IF HasCurrentPanel
       THEN LET shown == ShowExisting(instances[currentPanel], gitCmd, filePath, column)
            IN  /\ instances' = [instances EXCEPT ![currentPanel] = shown]
                /\ pending' = pending \cup {NewPromise(currentPanel, shown, execCount + 1)}
                /\ currentPanel' = currentPanel
                /\ watched' = [requested |-> filePath,
                               replaced |-> instances[currentPanel].filePath,
                               reused |-> TRUE]
       ELSE LET built == Construct(gitCmd, filePath, column)
                self == Len(instances) + 1
            IN  /\ Len(instances) < MaxInstances
                /\ instances' = Append(instances, built)
                /\ pending' = pending \cup {NewPromise(self, built, execCount + 1)}
                /\ currentPanel' = self
                /\ watched' = [requested |-> filePath, replaced |-> EmptyPath,
                               reused |-> FALSE]
    /\ execCount' = execCount + 1
    /\ lastOp' = [op |-> "createOrShow", gitCmd |-> gitCmd, filePath |-> filePath,
                  column |-> column, reused |-> HasCurrentPanel]
    /\ UNCHANGED unhandled

\* The instances whose save listener refreshes for uri.path = path
Refreshing(path) ==
    {i \in InstanceIds :
        instances[i].saveListener /\ SaveBranch(instances[i].filePath, path) # "none"}

\* workspace.onDidSaveTextDocument fires: the host calls every subscribed
\* listener, in subscription order.
SaveTextDocument(path) ==
    LET starters == Refreshing(path)
        rank(i) == Cardinality({j \in starters : j <= i})
    IN  /\ instances # << >>
        /\ execCount + Cardinality(starters) <= MaxRefreshes
        /\ instances' =
             [i \in InstanceIds |->
                IF i \in starters
                THEN [instances[i] EXCEPT
                        !.logger = Append(@, SaveLogLine(instances[i].filePath,
                                                SaveBranch(instances[i].filePath, path)))]
                ELSE instances[i]]
        /\ pending' = pending \cup
             {NewPromise(i, instances[i], execCount + rank(i)) : i \in starters}
        /\ execCount' = execCount + Cardinality(starters)
        /\ lastOp' = [op |-> "save", path |-> path, started |-> starters]
        /\ UNCHANGED <<currentPanel, unhandled, watched>>

\* Mutant: the callback writes to the panel of GitDiffView.currentPanel.
ResolveRefreshIntoCurrent(r) ==
    LET stdout == [cmd |-> r.cmd, req |-> r.req]
        target == IF currentPanel # NoPanel THEN currentPanel ELSE r.inst
        done == OnFulfilled(instances[target], stdout)
    IN  /\ instances' = [instances EXCEPT ![target] = done.o]
        /\ pending' = pending \ {r}
        /\ unhandled' = IF done.threw THEN unhandled + 1 ELSE unhandled
        /\ lastOp' = [op |-> "resolve", inst |-> r.inst]
        /\ UNCHANGED <<currentPanel, execCount, watched>>

\* execShell's promise is fulfilled with the command's output.
ResolveRefresh(r) ==
    LET stdout == [cmd |-> r.cmd, req |-> r.req]
        done == OnFulfilled(instances[r.inst], stdout)
    IN  /\ instances' = [instances EXCEPT ![r.inst] = done.o]
        /\ pending' = pending \ {r}
        /\ unhandled' = IF done.threw THEN unhandled + 1 ELSE unhandled
        /\ lastOp' = [op |-> "resolve", inst |-> r.inst]
        /\ UNCHANGED <<currentPanel, execCount, watched>>

\* Mutant: a rejected refresh is run again.
RejectRefreshRetries(r) ==
    /\ execCount < MaxRefreshes
    /\ pending' = (pending \ {r}) \cup {[r EXCEPT !.req = execCount + 1]}
    /\ execCount' = execCount + 1
    /\ lastOp' = [op |-> "reject", inst |-> r.inst]
    /\ UNCHANGED <<currentPanel, instances, unhandled, watched>>

\* execShell's promise is rejected.
RejectRefresh(r) ==
    LET done == OnRejected(instances[r.inst])
    IN  /\ instances' = [instances EXCEPT ![r.inst] = done.o]
        /\ pending' = pending \ {r}
        /\ unhandled' = IF done.threw THEN unhandled + 1 ELSE unhandled
        /\ lastOp' = [op |-> "reject", inst |-> r.inst]
        /\ UNCHANGED <<currentPanel, execCount, watched>>

\* Mutant: the listener never stores the reported visibility.
ViewStateListenerIgnores(o) == o

\* The listener given to panel.onDidChangeViewState
ViewStateListener(o) ==
    IF o.panelVisible # o.isPanelVisible
    THEN [o EXCEPT !.isPanelVisible = o.panelVisible]
    ELSE o

\* The host reports the panel of instance i shown or hidden.
ChangeViewState(i, visible) ==
    LET o == [instances[i] EXCEPT !.panelVisible = visible]
    IN  /\ ~instances[i].panelDisposed
        /\ instances' = [instances EXCEPT
                           ![i] = IF o.viewHook THEN ViewStateListener(o) ELSE o]
        /\ lastOp' = [op |-> "viewState", inst |-> i]
        /\ UNCHANGED <<currentPanel, pending, execCount, unhandled, watched>>

\* The user closes the panel of instance i.
ClosePanel(i) ==
    LET st == PanelDispose(Disposal(currentPanel, instances[i]))
    IN  /\ ~instances[i].panelDisposed
        /\ instances' = [instances EXCEPT ![i] = st.o]
        /\ currentPanel' = st.slot
        /\ lastOp' = [op |-> "close", inst |-> i]
        /\ UNCHANGED <<pending, execCount, unhandled, watched>>

\* dispose() is called on instance i, live or not.
DisposeInstance(i) ==
    LET st == Dispose(Disposal(currentPanel, instances[i]))
    IN  /\ instances' = [instances EXCEPT ![i] = st.o]
        /\ currentPanel' = st.slot
        /\ lastOp' = [op |-> "dispose", inst |-> i,
                      again |-> instances[i].disposed]
        /\ UNCHANGED <<pending, execCount, unhandled, watched>>

Next ==
    \/ \E q \in Requests : CreateOrShow(q.gitCmd, q.filePath, q.column)
    \/ \E path \in SavedPaths : SaveTextDocument(path)
    \/ \E r \in pending : ResolveRefresh(r)
    \/ \E r \in pending : RejectRefresh(r)
    \/ \E i \in InstanceIds, v \in BOOLEAN : ChangeViewState(i, v)
    \/ \E i \in InstanceIds : ClosePanel(i)
    \/ \E i \in InstanceIds : DisposeInstance(i)

Spec == Init /\ [][Next]_vars

\* ------------------------------------------------- properties
\* The host panels created and not destroyed yet
LivePanels == {i \in InstanceIds : ~instances[i].panelDisposed}

\* The instances dispose() has not run for
LiveInstances == {i \in InstanceIds : ~instances[i].disposed}

\* The instances the step started a refresh for
Started == {r.inst : r \in pending' \ pending}

\* The step was taken by the named handler.
StepOf(op) == lastOp'.op = op

\* C1: at most one host panel that was created and not destroyed exists, and
\* a non-empty registry slot holds the instance owning that panel.
C1_Singleton ==
    /\ Cardinality(LivePanels) <= 1
    /\ currentPanel # NoPanel => LivePanels = {currentPanel}

\* A second instance owns the only live panel after the first was torn down.
C1_Witness ==
    /\ Len(instances) = 2
    /\ instances[1].panelDisposed
    /\ currentPanel = 2
    /\ LivePanels = {2}

\* C2: the step that disposes an instance leaves the registry slot empty, and
\* a createOrShow call made with an empty slot creates a new host panel and
\* stores a new instance; no createOrShow call reveals, changes or refreshes
\* a disposed instance.
C2_DisposeThenCreate ==
    [][/\ \A i \in InstanceIds :
            ~instances[i].disposed /\ instances'[i].disposed
                => currentPanel' = NoPanel
       /\ StepOf("createOrShow") =>
            /\ currentPanel' # NoPanel
            /\ ~instances'[currentPanel'].disposed
            /\ currentPanel' \in InstanceIds => ~instances[currentPanel'].disposed
            /\ currentPanel = NoPanel =>
                 /\ Len(instances') = Len(instances) + 1
                 /\ currentPanel' = Len(instances')
                 /\ ~instances'[currentPanel'].panelDisposed
            /\ \A i \in InstanceIds :
                 instances[i].disposed =>
                    /\ instances'[i] = instances[i]
                    /\ i \notin Started]_vars

\* createOrShow has just built the second instance after the first was disposed.
C2_Witness ==
    /\ lastOp.op = "createOrShow"
    /\ ~lastOp.reused
    /\ Len(instances) = 2
    /\ instances[1].disposed
    /\ currentPanel = 2
    /\ ~instances[2].disposed

\* C3: createOrShow with a live instance creates no host panel, replaces the
\* instance's gitCmd and filePath by the arguments, starts exactly one refresh,
\* which runs the new command, and reveals the panel in the requested column.
C3_ReuseExisting ==
    [][StepOf("createOrShow") /\ currentPanel # NoPanel =>
         /\ Len(instances') = Len(instances)
         /\ currentPanel' = currentPanel
         /\ instances'[currentPanel].gitCmd = lastOp'.gitCmd
         /\ instances'[currentPanel].filePath = lastOp'.filePath
         /\ instances'[currentPanel].panelColumn = lastOp'.column
         /\ ~instances'[currentPanel].panelDisposed
         /\ pending \subseteq pending'
         /\ Cardinality(pending' \ pending) = 1
         /\ \A r \in pending' \ pending :
              r.inst = currentPanel /\ r.cmd = lastOp'.gitCmd
         /\ execCount' = execCount + 1]_vars

\* createOrShow has just reused the only instance with another command, while
\* the refresh of its construction is still pending.
C3_Witness ==
    /\ lastOp.op = "createOrShow"
    /\ lastOp.reused
    /\ Len(instances) = 1
    /\ currentPanel = 1
    /\ instances[1].gitCmd = lastOp.gitCmd
    /\ \E r \in pending : r.inst = 1 /\ r.cmd # lastOp.gitCmd
    /\ \E r \in pending : r.inst = 1 /\ r.cmd = lastOp.gitCmd

\* C4 as stated: a save notification starts a refresh for a live instance
\* exactly when filePath is "." or uri.path ends with filePath.
C4_Original ==
    [][StepOf("save") =>
         \A i \in LiveInstances :
            i \in Started <=>
               \/ instances[i].filePath = RepoMarker
               \/ EndsWith(lastOp'.path, instances[i].filePath)]_vars

\* C4 as amended: a save notification starts a refresh for a live instance
\* exactly when filePath is "." or uri.path is not empty and ends with
\* filePath; so any path refreshes a "." watcher, "/repo/sub/file.txt"
\* refreshes a "file.txt" watcher and "/repo/other.txt" does not.
C4_SaveMatching ==
    [][StepOf("save") =>
         \A i \in LiveInstances :
            /\ i \in Started <=>
                 \/ instances[i].filePath = RepoMarker
                 \/ /\ lastOp'.path # EmptyPath
                    /\ EndsWith(lastOp'.path, instances[i].filePath)
            /\ instances[i].filePath = RepoMarker => i \in Started
            /\ instances[i].filePath = FileTxt =>
                 /\ lastOp'.path = RepoSubFileTxt => i \in Started
                 /\ lastOp'.path = RepoOtherTxt => i \notin Started]_vars

\* "/repo/sub/file.txt" was saved and the "file.txt" watcher started a refresh.
C4_Witness ==
    /\ lastOp.op = "save"
    /\ lastOp.path = RepoSubFileTxt
    /\ currentPanel # NoPanel
    /\ instances[currentPanel].filePath = FileTxt
    /\ currentPanel \in lastOp.started
    /\ \E r \in pending : r.inst = currentPanel /\ r.req = execCount

\* C5: a rejection of execShell leaves the displayed HTML of every panel as
\* it was before.
C5_RejectKeepsHtml ==
    [][StepOf("reject") =>
         \A i \in InstanceIds : instances'[i].html = instances[i].html]_vars

\* A refresh of a panel that already displays a diff was rejected.
C5_Witness ==
    /\ lastOp.op = "reject"
    /\ ~instances[lastOp.inst].panelDisposed
    /\ instances[lastOp.inst].html # NoHtml

\* C6 as stated: a rejection of execShell is written to the output channel
\* and leaves no rejected promise without a handler.
C6_Original ==
    [][StepOf("reject") /\ pending' # pending =>
         /\ unhandled' = unhandled
         /\ \E i \in InstanceIds :
              Len(instances'[i].logger) > Len(instances[i].logger)]_vars

\* C7 as stated: there are never more subscribed save listeners than live
\* instances, and no save notification starts a refresh for a disposed
\* instance.
C7_Original ==
    [][/\ Cardinality({i \in InstanceIds : instances'[i].saveListener})
            <= Cardinality({i \in InstanceIds : ~instances'[i].disposed})
       /\ StepOf("save") => \A i \in Started : ~instances[i].disposed]_vars

C9_DisposeIdempotent ==
    [][StepOf("dispose") /\ instances[lastOp'.inst].disposed =>
         /\ currentPanel' = currentPanel
         /\ instances' = instances
         /\ pending' = pending
         /\ unhandled' = unhandled]_vars

\* dispose() was called again on the first instance while the second is live.
C9_Witness ==
    /\ lastOp.op = "dispose"
    /\ lastOp.again
    /\ lastOp.inst = 1
    /\ currentPanel = 2
    /\ instances[1].cleanupLog = RegisteredDisposables

\* C10: when the host destroys the panel of a live instance, the instance's
\* cleanup runs: the registry slot is emptied, the hooks are detached, and the
\* instance ends as dispose() would have left it.
C10_CloseDisposes ==
    [][StepOf("close") /\ ~instances[lastOp'.inst].disposed =>
         LET i == lastOp'.inst
             byDispose == Dispose(Disposal(currentPanel, instances[i]))
         IN  /\ currentPanel' = NoPanel
             /\ instances'[i].disposed
             /\ instances'[i].panelDisposed
             /\ ~instances'[i].viewHook
             /\ ~instances'[i].disposeHook
             /\ instances'[i] = byDispose.o
             /\ currentPanel' = byDispose.slot]_vars

\* The user closed the panel of the current instance and its cleanup ran.
C10_Witness ==
    /\ lastOp.op = "close"
    /\ instances[lastOp.inst].disposed
    /\ instances[lastOp.inst].cleanupLog = RegisteredDisposables
    /\ currentPanel = NoPanel

\* The promises the step settled
Settled == pending \ pending'

ContentRefreshed(o) == SelectSeq(o.logger, LAMBDA line : line = <<"content refreshed">>)

\* C11: a refresh started while another is pending leaves that one pending,
\* and every fulfilment settles one promise, leaves the others pending and
\* makes the panel display the rendering of its own output, whichever refresh
\* was requested last.
C11_LastSettledWins ==
    [][/\ StepOf("createOrShow") \/ StepOf("save") =>
            /\ pending \subseteq pending'
            /\ \A i \in Started :
                 Cardinality({r \in pending' : r.inst = i})
                    = Cardinality({r \in pending : r.inst = i}) + 1
       /\ StepOf("resolve") =>
            \A r \in Settled :
               /\ pending' = pending \ {r}
               /\ ~instances[r.inst].panelDisposed =>
                    /\ instances'[r.inst].html.app
                          = RenderDiff([cmd |-> r.cmd, req |-> r.req])
                    /\ Len(ContentRefreshed(instances'[r.inst]))
                          = Len(ContentRefreshed(instances[r.inst])) + 1]_vars

\* Two refreshes of one panel were fulfilled, the one requested first last,
\* and the panel displays the output of the one requested first.
C11_Witness ==
    /\ lastOp.op = "resolve"
    /\ Len(instances) = 1
    /\ ~instances[1].panelDisposed
    /\ execCount = 2
    /\ pending = {}
    /\ Len(ContentRefreshed(instances[1])) = 2
    /\ instances[1].html.app.rendered.req = 1

CleanupOrder ==
    <<"clearCurrentPanel", "panel.onDidDispose", "panel.onDidChangeViewState", "panel">>

\* The disposal the step ran, with what held at the moment the panel went.
DisposalOfStep ==
    LET i == lastOp'.inst
    IN  IF StepOf("close")
        THEN PanelDispose(Disposal(currentPanel, instances[i]))
        ELSE Dispose(Disposal(currentPanel, instances[i]))

FirstDisposalStep ==
    /\ StepOf("dispose") \/ StepOf("close")
    /\ ~instances[lastOp'.inst].disposed

\* C13 as stated: every disposal runs the four cleanup actions once each in
\* registration order and destroys the host panel last, when the registry
\* slot is already empty.
C13_Original ==
    [][FirstDisposalStep =>
         /\ instances'[lastOp'.inst] = DisposalOfStep.o
         /\ instances'[lastOp'.inst].cleanupLog = CleanupOrder
         /\ DisposalOfStep.atDestroy.ran = CleanupOrder
         /\ DisposalOfStep.atDestroy.slot = NoPanel]_vars

\* C13 as amended: every disposal runs the four cleanup actions once each in
\* registration order; dispose() destroys the host panel last, when the
\* registry slot is already empty, while a panel closed by the host is
\* destroyed before any cleanup action runs, the slot still holding the
\* instance.
C13_CleanupOrder ==
    [][FirstDisposalStep =>
         /\ instances'[lastOp'.inst] = DisposalOfStep.o
         /\ instances'[lastOp'.inst].cleanupLog = CleanupOrder
         /\ instances'[lastOp'.inst].panelDisposed
         /\ currentPanel' = NoPanel
         /\ StepOf("dispose") =>
              /\ DisposalOfStep.atDestroy.ran = CleanupOrder
              /\ DisposalOfStep.atDestroy.slot = NoPanel
         /\ StepOf("close") =>
              /\ DisposalOfStep.atDestroy.ran = << >>
              /\ DisposalOfStep.atDestroy.slot = lastOp'.inst]_vars

\* dispose() has just torn down the current instance.
C13_Witness ==
    /\ lastOp.op = "dispose"
    /\ ~lastOp.again
    /\ instances[lastOp.inst].disposed
    /\ instances[lastOp.inst].panelDisposed
    /\ instances[lastOp.inst].cleanupLog = CleanupOrder
    /\ instances[lastOp.inst].disposables = << >>
    /\ currentPanel = NoPanel

\* C14: the registry slot never holds a disposed instance, and it changes
\* only when createOrShow stores the instance it constructed into an empty
\* slot or when the instance it holds is disposed; the disposal, first or
\* repeated, of any other instance leaves it alone.
C14_SlotWrites ==
    [][/\ currentPanel' # NoPanel => ~instances'[currentPanel'].disposed
       /\ currentPanel' # currentPanel =>
            \/ /\ StepOf("createOrShow")
               /\ currentPanel = NoPanel
               /\ Len(instances') = Len(instances) + 1
               /\ currentPanel' = Len(instances')
            \/ /\ StepOf("dispose") \/ StepOf("close")
               /\ lastOp'.inst = currentPanel
               /\ ~instances[currentPanel].disposed
               /\ currentPanel' = NoPanel
       /\ StepOf("dispose") /\ lastOp'.inst # currentPanel =>
            currentPanel' = currentPanel]_vars

\* dispose() was called again on the first instance while the slot holds the
\* second, whose panel displays a diff.
C14_Witness ==
    /\ lastOp.op = "dispose"
    /\ lastOp.again
    /\ lastOp.inst = 1
    /\ currentPanel = 2
    /\ ~instances[2].disposed
    /\ instances[2].html # NoHtml

\* The promises the step created
Created == pending' \ pending

C16_Original ==
    \A i \in InstanceIds :
       instances[i].html # NoHtml =>
          instances[i].html.cmd = instances[i].html.app.rendered.cmd

\* C17: isPanelVisible changes only in the visibility-change hook of a live
\* instance, which leaves it equal to the panel's visibility; no other step
\* changes it, and it never changes once the instance is disposed.
C17_VisibilityFrame ==
    [][/\ \A i \in InstanceIds :
            instances'[i].isPanelVisible # instances[i].isPanelVisible =>
               /\ StepOf("viewState")
               /\ lastOp'.inst = i
               /\ ~instances[i].disposed
       /\ StepOf("viewState") =>
            /\ instances'[lastOp'.inst].isPanelVisible
                  = instances'[lastOp'.inst].panelVisible
            /\ ~instances[lastOp'.inst].disposed
       /\ StepOf("createOrShow") /\ Len(instances') > Len(instances) =>
            instances'[Len(instances')].isPanelVisible]_vars

\* The host reported the panel hidden and the flag followed.
C17_Witness ==
    /\ lastOp.op = "viewState"
    /\ ~instances[lastOp.inst].panelVisible
    /\ ~instances[lastOp.inst].isPanelVisible
    /\ ~instances[lastOp.inst].disposed

DiffTexts == {"", "--- a\n+++ b\n@@ -1 +1 @@\n-old\n+new", "--- a\n+++ c"}

\* getHtmlForWebview(diffContent) of this design: no command is shown.
GetHtmlDirect(diffContent) ==
    [kind |-> "document", app |-> RenderDiff(diffContent), css |-> "out.min.css"]

\* The instance the constructor of this design builds.
ConstructDirect(diffContent, column) ==
    [isPanelVisible |-> TRUE,
     panelDisposed |-> FALSE,
     panelVisible |-> TRUE,
     panelColumn |-> column,
     html |-> GetHtmlDirect(diffContent),
     disposed |-> FALSE,
     disposables |-> RegisteredDisposables,
     disposeHook |-> OnDidDispose \in Range(RegisteredDisposables),
     viewHook |-> OnDidChangeViewState \in Range(RegisteredDisposables),
     cleanupLog |-> << >>]

\* Mutant: the reuse branch reveals the panel and keeps its content.
ShowExistingDirectOnlyReveals(o, diffContent, column) ==
    [o EXCEPT !.panelColumn = column]

\* The branch of createOrShow taken when GitDiffView.currentPanel is set.
ShowExistingDirect(o, diffContent, column) ==
    [o EXCEPT !.html = GetHtmlDirect(diffContent), !.panelColumn = column]

\* GitDiffView.createOrShow(extensionPath, diffContent, column)
CreateOrShowDirect(diffContent, column) ==
    /\ IF HasCurrentPanel
       THEN /\ instances' = [instances EXCEPT ![currentPanel] =
                               ShowExistingDirect(@, diffContent, column)]
            /\ currentPanel' = currentPanel
       ELSE /\ Len(instances) < MaxInstances
            /\ instances' = Append(instances, ConstructDirect(diffContent, column))
            /\ currentPanel' = Len(instances) + 1
    /\ lastOp' = [op |-> "createOrShow", text |-> diffContent, column |-> column,
                  reused |-> HasCurrentPanel]
    /\ UNCHANGED <<pending, execCount, unhandled, watched>>

NextDirect ==
    \/ \E text \in DiffTexts, col \in {"One", "Beside"} : CreateOrShowDirect(text, col)
    \/ \E i \in InstanceIds, v \in BOOLEAN : ChangeViewState(i, v)
    \/ \E i \in InstanceIds : ClosePanel(i)
    \/ \E i \in InstanceIds : DisposeInstance(i)

SpecDirect == Init /\ [][NextDirect]_vars

\* C18: when createOrShow(text) returns, the registry slot holds an instance
\* whose panel is the only live one and displays the rendering of text,
\* whether the instance was constructed or reused.
C18_DirectContentShown ==
    [][StepOf("createOrShow") =>
         /\ currentPanel' # NoPanel
         /\ instances'[currentPanel'].html = GetHtmlDirect(lastOp'.text)
         /\ instances'[currentPanel'].html.app.rendered = lastOp'.text
         /\ {i \in 1..Len(instances') : ~instances'[i].panelDisposed}
               = {currentPanel'}
         /\ currentPanel # NoPanel =>
              /\ currentPanel' = currentPanel
              /\ Len(instances') = Len(instances)
         /\ currentPanel = NoPanel => currentPanel' = Len(instances) + 1]_vars

\* createOrShow has just reused the second instance, whose panel displayed
\* another text before and now displays the new one.
C18_Witness ==
    /\ lastOp.op = "createOrShow"
    /\ lastOp.reused
    /\ Len(instances) = 2
    /\ currentPanel = 2
    /\ instances[1].panelDisposed
    /\ lastOp.text # ""
    /\ instances[2].html.app.rendered = lastOp.text
    /\ instances[1].html.app.rendered # lastOp.text

====
